---- MODULE Spec2Model ----
(***************************************************************************)
(* Sub-character tokenizers of med_char-level_RAG:                         *)
(*   customs_tokenizers/stroke_tokenizer.py   StrokeTokenizer  (batch)     *)
(*   zh2text.py                               StrokeTokenizer  (single)    *)
(*   customs_tokenizers/pinyin_tokenizer.py   PinyinTokenizer              *)
(* A Python str is a sequence of one-character strings; a vocabulary       *)
(* symbol is such a sequence too ("zh" is <<"z","h">>).  A dict is a       *)
(* function whose DOMAIN is its key set.                                   *)
(***************************************************************************)
EXTENDS Integers, Sequences, FiniteSets, TLC

VARIABLES pc, cls, max_length, char2stroke, stroke2id, id2stroke,
          token2id, id2token, zh2text_file, call, out, memo

vars == <<pc, cls, max_length, char2stroke, stroke2id, id2stroke,
          token2id, id2token, zh2text_file, call, out, memo>>

---------------------------------------------------------------------------
(* Bounds of the model *)

MaxLines == 2
MaxText == 2
MaxBatch == 2
MaxBatchText == 1
MaxLen == 3
MaxSyl == 2
MaxSylLen == 3
MaxDetText == 1

(* Python's None for the max_length argument *)
None == 0 - 1

---------------------------------------------------------------------------
(* Generic helpers: Python list and dict primitives *)

Min(a, b) == IF a < b THEN a ELSE b

Max(a, b) == IF a < b THEN b ELSE a

(* all sequences over S of length at most n *)
SeqUpTo(S, n) == UNION {[1..k -> S] : k \in 0..n}

(* s[:n] for n >= 0 *)
Prefix(s, n) == SubSeq(s, 1, Min(Len(s), n))

(* s[n:] for n >= 0 *)
Suffix(s, n) == SubSeq(s, n + 1, Len(s))

(* [x] * n ; a negative n gives the empty list *)
Repeat(x, n) == [i \in 1..Max(n, 0) |-> x]

(* d[k] = v *)
Put(d, k, v) == [x \in (DOMAIN d) \cup {k} |-> IF x = k THEN v ELSE d[x]]

(* d.get(k, default) *)
Get(d, k, default) == IF k \in DOMAIN d THEN d[k] ELSE default

(* {k: v for (k, v) in pairs}: a later pair overwrites an earlier one *)
DictOf(pairs) ==
    [k \in {pairs[i][1] : i \in 1..Len(pairs)} |->
        LET last == CHOOSE i \in 1..Len(pairs) :
                        /\ pairs[i][1] = k
                        /\ \A j \in 1..Len(pairs) : pairs[j][1] = k => j <= i
        IN pairs[last][2]]

(* list(s) for a str s: its characters, each a one-character str *)
list(s) == [i \in 1..Len(s) |-> <<s[i]>>]

RECURSIVE Concat(_)
Concat(ss) == IF ss = <<>> THEN <<>> ELSE ss[1] \o Concat(Tail(ss))

RECURSIVE Sum(_)
Sum(ns) == IF ns = <<>> THEN 0 ELSE ns[1] + Sum(Tail(ns))

(* code points of the characters that occur in stroke strings *)
CodePoint(c) ==
    CASE c = "#" -> 35
      [] c = "H" -> 72
      [] c = "K" -> 75
      [] c = "N" -> 78
      [] c = "S" -> 83
      [] c = "U" -> 85
      [] c = "[" -> 91
      [] c = "]" -> 93
      [] c = "a" -> 97
      [] c = "b" -> 98

(* sorted(list(S)) for a set S of one-character strings *)
RECURSIVE sorted(_)
sorted(S) ==
    IF S = {} THEN <<>>
    ELSE LET m == CHOOSE x \in S : \A y \in S : CodePoint(x) <= CodePoint(y)
         IN <<m>> \o sorted(S \ {m})

---------------------------------------------------------------------------
(* Special tokens, shared by the three classes *)

pad_token == <<"[", "P", "A", "D", "]">>

unk_token == <<"[", "U", "N", "K", "]">>

cls_token == <<"[", "C", "L", "S", "]">>

sep_token == <<"[", "S", "E", "P", "]">>

special_tokens == <<pad_token, unk_token, cls_token, sep_token>>

---------------------------------------------------------------------------
(* Decomposition table files.  A line is the list line.strip().split()    *)
(* yields; a file is missing or a list of lines.                           *)

LineSet ==
    { << <<"a">>, <<"S", "H">> >>,
      << <<"b">>, <<"H">> >>,
      << <<"#">>, <<"N">> >> }

Files == [exists : {TRUE}, lines : SeqUpTo(LineSet, MaxLines)]
         \cup {[exists |-> FALSE, lines |-> <<>>]}

TextChars == {"a", "b"}

Texts == SeqUpTo(TextChars, MaxText)

(* stroke_tokenizer.py: the loop body of _load_zh2text *)
RECURSIVE LoadLines(_)
LoadLines(lines) ==
    IF lines = <<>> THEN <<>>
    ELSE LET n == Len(lines)
             parts == lines[n]
             mapping == LoadLines(Prefix(lines, n - 1))
         IN IF Len(parts) >= 2 THEN Put(mapping, parts[1], parts[2]) ELSE mapping

(* stroke_tokenizer.py: _load_zh2text; FileNotFoundError is caught *)
load_zh2text(file) == IF file.exists THEN LoadLines(file.lines) ELSE <<>>

(* zh2text.py: the loop body of _load_zh2text (blank and # lines skipped) *)
RECURSIVE LoadLinesZ(_)
LoadLinesZ(lines) ==
    IF lines = <<>> THEN <<>>
    ELSE LET n == Len(lines)
             parts == lines[n]
             char2strokeZ == LoadLinesZ(Prefix(lines, n - 1))
         IN IF parts = <<>> \/ parts[1][1] = "#" THEN char2strokeZ
            ELSE IF Len(parts) >= 2 THEN Put(char2strokeZ, parts[1], parts[2])
            ELSE char2strokeZ

(* the set of stroke symbols of a table *)
StrokeSet(table) == UNION {{table[k][i] : i \in 1..Len(table[k])} : k \in DOMAIN table}

(* a faulty variant of VocabPairs: only three ids are reserved *)
VocabPairsFromThree(table) ==
    LET strokes == sorted(StrokeSet(table))
    IN [i \in 1..Len(strokes) |-> << <<strokes[i]>>, (i - 1) + 3 >>]
       \o << <<pad_token, 0>>, <<unk_token, 1>>, <<cls_token, 2>>, <<sep_token, 3>> >>

(* stroke_tokenizer.py: _build_vocab, the pairs in insertion order *)
VocabPairs(table) ==
    LET strokes == sorted(StrokeSet(table))
    IN [i \in 1..Len(strokes) |-> << <<strokes[i]>>, (i - 1) + 4 >>]
       \o << <<pad_token, 0>>, <<unk_token, 1>>, <<cls_token, 2>>, <<sep_token, 3>> >>

build_vocab(table) == DictOf(VocabPairs(table))

(* {v: k for k, v in d.items()} *)
Inverse(pairs) == DictOf([i \in 1..Len(pairs) |-> <<pairs[i][2], pairs[i][1]>>])

(* zh2text.py: _build_stroke_vocab *)
VocabListZ(table) ==
    LET all_strokes == sorted(StrokeSet(table))
    IN special_tokens \o [i \in 1..Len(all_strokes) |-> <<all_strokes[i]>>]

build_stroke_vocab(table) ==
    LET vocab == VocabListZ(table)
    IN DictOf([i \in 1..Len(vocab) |-> <<vocab[i], i - 1>>])

build_idx2stroke(table) ==
    LET vocab == VocabListZ(table)
    IN DictOf([i \in 1..Len(vocab) |-> <<i - 1, vocab[i]>>])

---------------------------------------------------------------------------
(* Graphemic decomposition *)

(* stroke_tokenizer.py: text_to_strokes, the symbols of one character *)
CharStrokes(table, ch) ==
    IF <<ch>> \in DOMAIN table THEN list(table[<<ch>>]) ELSE <<unk_token>>

(* stroke_tokenizer.py: text_to_strokes *)
text_to_strokes(table, text) ==
    Concat([i \in 1..Len(text) |-> CharStrokes(table, text[i])])

(* zh2text.py: char_to_strokes *)
char_to_strokes(table, char) == Get(table, <<char>>, unk_token)

(* zh2text.py: text_to_strokes; list(strokes) splits the str it is given *)
text_to_strokesZ(table, text) ==
    Concat([i \in 1..Len(text) |-> list(char_to_strokes(table, text[i]))])

(* the ids of a list of symbols: d.get(s, d[unk_token]) for each *)
ToIds(vocab, symbols) ==
    [i \in 1..Len(symbols) |-> Get(vocab, symbols[i], vocab[unk_token])]

(* ids before truncation: [CLS] + ids + [SEP] *)
Wrap(vocab, ids) == <<vocab[cls_token]>> \o ids \o <<vocab[sep_token]>>

(* a faulty variant of Truncate: keeps one id too many *)
TruncateOffByOne(ids, truncation, max_len) ==
    IF truncation /\ Len(ids) > max_len THEN Prefix(ids, max_len + 1) ELSE ids

(* if truncation and len(ids) > max_length: ids = ids[:max_length] *)
Truncate(ids, truncation, max_len) ==
    IF truncation /\ Len(ids) > max_len THEN Prefix(ids, max_len) ELSE ids

(* stroke_tokenizer.py: __call__, the body of the loop over texts *)
StrokeRow(vocab, table, text, truncation, max_len) ==
    Truncate(Wrap(vocab, ToIds(vocab, text_to_strokes(table, text))), truncation, max_len)

(* max(len(ids) for ids in all_ids), for a non-empty all_ids *)
MaxRowLen(all_ids) ==
    CHOOSE n \in {Len(all_ids[i]) : i \in 1..Len(all_ids)} :
        \A i \in 1..Len(all_ids) : Len(all_ids[i]) <= n

(* ids += [pad_id] * (max_len - len(ids)) for every row *)
PadRows(all_ids, pad_id) ==
    [i \in 1..Len(all_ids) |->
        all_ids[i] \o Repeat(pad_id, MaxRowLen(all_ids) - Len(all_ids[i]))]

(* torch.tensor(all_ids) raises on rows of unequal length *)
Ragged(all_ids) ==
    \E i, j \in 1..Len(all_ids) : Len(all_ids[i]) # Len(all_ids[j])

(* a faulty variant of MaskOf: padding is not masked out *)
MaskOfAllOnes(rows, pad_id) ==
    [i \in 1..Len(rows) |-> [j \in 1..Len(rows[i]) |-> 1]]

(* (input_ids != pad_id).long() *)
MaskOf(rows, pad_id) ==
    [i \in 1..Len(rows) |->
        [j \in 1..Len(rows[i]) |-> IF rows[i][j] # pad_id THEN 1 ELSE 0]]

Raised == [raised |-> TRUE, input_ids |-> <<>>, attention_mask |-> <<>>, tokens |-> <<>>]

Result(ids, mask) ==
    [raised |-> FALSE, input_ids |-> ids, attention_mask |-> mask, tokens |-> <<>>]

(* "if padding:" for the values True, False and 'max_length' *)
Truthy(padding) == padding # "False"

(* stroke_tokenizer.py: __call__; max_len is the max_length in effect *)
StrokeCallResult(vocab, table, texts, padding, truncation, max_len) ==
    LET all_ids == [i \in 1..Len(texts) |->
                       StrokeRow(vocab, table, texts[i], truncation, max_len)]
        pad_id == vocab[pad_token]
    IN IF Truthy(padding) /\ all_ids = <<>> THEN Raised
       ELSE LET padded == IF Truthy(padding) THEN PadRows(all_ids, pad_id) ELSE all_ids
            IN IF Ragged(padded) THEN Raised
               ELSE Result(padded, MaskOf(padded, pad_id))

(* zh2text.py: __call__; the result has one row *)
ZCallResult(vocab, table, text, padding, truncation, max_len) ==
    LET ids == Truncate(Wrap(vocab, ToIds(vocab, text_to_strokesZ(table, text))),
                        truncation, max_len)
        mask == Repeat(1, Len(ids))
        pad_len == max_len - Len(ids)
    IN IF padding = "max_length"
       THEN Result(<<ids \o Repeat(vocab[pad_token], pad_len)>>,
                   <<mask \o Repeat(0, pad_len)>>)
       ELSE Result(<<ids>>, <<mask>>)

---------------------------------------------------------------------------
(* Phonetic scheme: pinyin_tokenizer.py *)

initials ==
    << <<"b">>, <<"p">>, <<"m">>, <<"f">>,
       <<"d">>, <<"t">>, <<"n">>, <<"l">>,
       <<"g">>, <<"k">>, <<"h">>, <<"j">>,
       <<"q">>, <<"x">>, <<"z", "h">>, <<"c", "h">>,
       <<"s", "h">>, <<"r">>, <<"z">>, <<"c">>,
       <<"s">>, <<"y">>, <<"w">> >>

finals ==
    << <<"a">>, <<"o">>, <<"e">>, <<"i">>,
       <<"u">>, <<"v">>, <<"a", "i">>, <<"e", "i">>,
       <<"u", "i">>, <<"a", "o">>, <<"o", "u">>, <<"i", "u">>,
       <<"i", "e">>, <<"v", "e">>, <<"a", "n">>, <<"e", "n">>,
       <<"i", "n">>, <<"u", "n">>, <<"v", "n">>, <<"a", "n", "g">>,
       <<"e", "n", "g">>, <<"i", "n", "g">>, <<"o", "n", "g">> >>

tones == << <<"1">>, <<"2">>, <<"3">>, <<"4">>, <<"5">> >>

(* _build_vocab: token2id = {t: i for i, t in enumerate(vocab)} *)
PinyinVocab == special_tokens \o initials \o finals \o tones

build_token2id == DictOf([i \in 1..Len(PinyinVocab) |-> <<PinyinVocab[i], i - 1>>])

(* id2token = {i: t for t, i in token2id.items()} *)
build_id2token(t2i) ==
    LET keys == [i \in 1..Len(PinyinVocab) |-> PinyinVocab[i]]
    IN DictOf([i \in 1..Len(keys) |-> <<t2i[keys[i]], keys[i]>>])

(* str.isdigit() for one ASCII character *)
Digits == {"0", "1", "2", "3", "4", "5", "6", "7", "8", "9"}

(* the characters str.strip() removes *)
Whitespace == {" "}

(* tone = p[-1] if p and p[-1].isdigit() else '5' *)
ToneOf(p) == IF p # <<>> /\ p[Len(p)] \in Digits THEN <<p[Len(p)]>> ELSE <<"5">>

(* p_core = p[:-1] if tone != '5' else p *)
CoreOf(p) == IF ToneOf(p) # <<"5">> THEN Prefix(p, Len(p) - 1) ELSE p

(* the i values of "for i in range(len(p_core), 0, -1)" whose prefix is a key *)
MatchLens(t2i, p_core) == {i \in 1..Len(p_core) : Prefix(p_core, i) \in DOMAIN t2i}

(* the first i the descending loop accepts *)
FirstMatch(lens) == CHOOSE i \in lens : \A j \in lens : j <= i

(* split_pinyin *)
split_pinyin(t2i, p) ==
    LET tone == ToneOf(p)
        p_core == CoreOf(p)
        lens == MatchLens(t2i, p_core)
    IN IF lens # {}
       THEN <<Prefix(p_core, FirstMatch(lens)), Suffix(p_core, FirstMatch(lens)), tone>>
       ELSE <<unk_token, unk_token, tone>>

(* a faulty variant of Skipped: "not syl or not syl[0]", without strip() *)
SkippedEmptyOnly(syl) == syl = <<>> \/ syl[1] = <<>>

(* "not syl or not syl[0].strip()" *)
Skipped(syl) == syl = <<>> \/ \A i \in 1..Len(syl[1]) : syl[1][i] \in Whitespace

(* encode: the ids one entry of the romanization contributes *)
SyllableIds(t2i, syl) ==
    IF Skipped(syl) THEN <<>> ELSE ToIds(t2i, split_pinyin(t2i, syl[1]))

(* encode, given the list pypinyin.pinyin(text, ...) returned *)
encode(t2i, syllables) ==
    LET ids == Concat([i \in 1..Len(syllables) |-> SyllableIds(t2i, syllables[i])])
    IN IF ids = <<>> THEN <<t2i[unk_token]>> ELSE ids

(* "max_length or self.max_length": None and 0 are falsy *)
OrDefault(arg, default) == IF arg = None \/ arg = 0 THEN default ELSE arg

(* stroke_tokenizer.py: "if max_length is None: max_length = self.max_length" *)
IfNone(arg, default) == IF arg = None THEN default ELSE arg

(* the max_length in effect in __call__ of class c *)
InEffect(c, arg, default) ==
    IF c = "stroke_tokenizer" THEN IfNone(arg, default) ELSE OrDefault(arg, default)

(* __call__ *)
PinyinCallResult(t2i, syllables, padding, truncation, max_len) ==
    LET wrapped == Wrap(t2i, encode(t2i, syllables))
        ids == IF truncation THEN Prefix(wrapped, max_len) ELSE wrapped
        mask == Repeat(1, Len(ids))
        pad_len == max_len - Len(ids)
    IN IF padding = "max_length" /\ Len(ids) < max_len
       THEN Result(<<ids \o Repeat(t2i[pad_token], pad_len)>>,
                   <<mask \o Repeat(0, pad_len)>>)
       ELSE Result(<<ids>>, <<mask>>)

---------------------------------------------------------------------------
(* Inputs *)

(* the max_length given to a constructor *)
CtorLengths == {MaxLen + 1}

(* the max_length given to a call *)
CallLengths == {None} \cup 0..MaxLen

(* a list of texts, as __call__ holds it after "texts = [texts]" *)
Batches ==
    SeqUpTo(SeqUpTo(TextChars, MaxBatchText), MaxBatch) \cup {<<text>> : text \in Texts}

SylChars == {"z", "h", "a", "4", "5"}

(* the syllables given to split_pinyin *)
Syllables == SeqUpTo(SylChars, MaxSylLen)

(* entries of the list pypinyin.pinyin returns: [], [''], [' '], ['zha1'], ... *)
SyllableEntries ==
    { <<>>,
      << <<>> >>,
      << <<" ">> >>,
      << <<"z", "h", "a", "1">> >>,
      << <<"a", "4">> >>,
      << <<"z", "a", "5">> >>,
      << <<"!">> >> }

SyllableLists == SeqUpTo(SyllableEntries, MaxSyl)

NoFile == [exists |-> FALSE, lines |-> <<>>]

NoCall ==
    [op |-> "none", arg |-> <<>>, max_length |-> None, padding |-> "False",
     truncation |-> FALSE]

Call(op, arg, ml, padding, truncation) ==
    [op |-> op, arg |-> arg, max_length |-> ml, padding |-> padding,
     truncation |-> truncation]

NoOut == [raised |-> FALSE, input_ids |-> <<>>, attention_mask |-> <<>>, tokens |-> <<>>]

Tokens(ts) == [raised |-> FALSE, input_ids |-> <<>>, attention_mask |-> <<>>, tokens |-> ts]

NoMemo == [call |-> NoCall, out |-> NoOut, between |-> FALSE, repeated |-> FALSE]

---------------------------------------------------------------------------
(* The state machine: one tokenizer object, constructed once, then called. *)
(* pc is "new" before construction, "raised" when the constructor raised,  *)
(* "ready" when no call is under way and "returned" when a call has handed *)
(* its result (out) to the caller.                                         *)

Init ==
    /\ pc = "new"
    /\ cls = "none"
    /\ max_length = 0
    /\ char2stroke = <<>>
    /\ stroke2id = <<>>
    /\ id2stroke = <<>>
    /\ token2id = <<>>
    /\ id2token = <<>>
    /\ zh2text_file = NoFile
    /\ call = NoCall
    /\ out = NoOut
    /\ memo = NoMemo

(* the first call made on the object and its result *)
Remember(c, o) ==
    IF memo = NoMemo THEN [call |-> c, out |-> o, between |-> FALSE, repeated |-> FALSE]
    ELSE IF c = memo.call THEN [memo EXCEPT !.repeated = TRUE]
    ELSE IF memo.repeated THEN memo
    ELSE [memo EXCEPT !.between = TRUE]

(* a faulty variant of TableAfter: a lookup inserts the unmapped character *)
TableAfterInsert(table, text) ==
    [k \in (DOMAIN table) \cup {<<text[i]>> : i \in 1..Len(text)} |->
        IF k \in DOMAIN table THEN table[k] ELSE unk_token]

(* what a call leaves of self.char2stroke: "in", [] and .get() only read *)
TableAfter(table, text) == table

(* what a call leaves of the vocabulary: .get() and [] only read *)
VocabAfter(vocab, symbols) == vocab

(* stroke_tokenizer.py: StrokeTokenizer.__init__ *)
NewStrokeTokenizer(file, ml) ==
    /\ pc = "new"
    /\ pc' = "ready"
    /\ cls' = "stroke_tokenizer"
    /\ max_length' = ml
    /\ zh2text_file' = file
    /\ char2stroke' = load_zh2text(file)
    /\ stroke2id' = build_vocab(char2stroke')
    /\ id2stroke' = Inverse(VocabPairs(char2stroke'))
    /\ UNCHANGED <<token2id, id2token, call, out, memo>>

(* zh2text.py: StrokeTokenizer.__init__; open() of a missing file raises *)
NewZh2Text(file, ml) ==
    /\ pc = "new"
    /\ cls' = "zh2text"
    /\ zh2text_file' = file
    /\ IF file.exists
       THEN /\ pc' = "ready"
            /\ max_length' = ml
            /\ char2stroke' = LoadLinesZ(file.lines)
            /\ stroke2id' = build_stroke_vocab(char2stroke')
            /\ id2stroke' = build_idx2stroke(char2stroke')
       ELSE /\ pc' = "raised"
            /\ UNCHANGED <<max_length, char2stroke, stroke2id, id2stroke>>
    /\ UNCHANGED <<token2id, id2token, call, out, memo>>

(* pinyin_tokenizer.py: PinyinTokenizer.__init__ *)
NewPinyinTokenizer(ml) ==
    /\ pc = "new"
    /\ pc' = "ready"
    /\ cls' = "pinyin"
    /\ max_length' = ml
    /\ token2id' = build_token2id
    /\ id2token' = build_id2token(token2id')
    /\ UNCHANGED <<char2stroke, stroke2id, id2stroke, zh2text_file, call, out, memo>>

(* no call is under way on an object of class c *)
Ready(c) == pc = "ready" /\ cls = c

(* stroke_tokenizer.py: text_to_strokes *)
TextToStrokes ==
    /\ Ready("stroke_tokenizer")
    /\ \E text \in Texts :
          /\ call' = Call("text_to_strokes", text, None, "False", FALSE)
          /\ out' = Tokens(text_to_strokes(char2stroke, text))
          /\ char2stroke' = TableAfter(char2stroke, text)
    /\ pc' = "returned"
    /\ UNCHANGED <<cls, max_length, stroke2id, id2stroke, token2id, id2token,
                   zh2text_file, memo>>

(* stroke_tokenizer.py: __call__ on the list texts *)
StrokeCallBody(texts, ml, padding, truncation) ==
    /\ pc' = "returned"
    /\ call' = Call("__call__", texts, ml, padding, truncation)
    /\ out' = StrokeCallResult(stroke2id, char2stroke, texts, padding, truncation,
                               InEffect(cls, ml, max_length))
    /\ char2stroke' = TableAfter(char2stroke, Concat(texts))
    /\ stroke2id' = VocabAfter(stroke2id, text_to_strokes(char2stroke, Concat(texts)))
    /\ UNCHANGED <<cls, max_length, id2stroke, token2id, id2token, zh2text_file>>

StrokeCall ==
    /\ Ready("stroke_tokenizer")
    /\ \E texts \in Batches, ml \in CallLengths, padding \in {"True", "False"},
          truncation \in BOOLEAN : StrokeCallBody(texts, ml, padding, truncation)
    /\ UNCHANGED memo

(* zh2text.py: text_to_strokes *)
TextToStrokesZ ==
    /\ Ready("zh2text")
    /\ \E text \in Texts :
          /\ call' = Call("text_to_strokes", text, None, "False", FALSE)
          /\ out' = Tokens(text_to_strokesZ(char2stroke, text))
          /\ char2stroke' = TableAfter(char2stroke, text)
    /\ pc' = "returned"
    /\ UNCHANGED <<cls, max_length, stroke2id, id2stroke, token2id, id2token,
                   zh2text_file, memo>>

(* zh2text.py: __call__ with the default return_tensors='pt' (one row);    *)
(* return_tensors=None returns the same row without the batch dimension.   *)
ZCallBody(text, ml, padding, truncation) ==
    /\ pc' = "returned"
    /\ call' = Call("__call__", text, ml, padding, truncation)
    /\ out' = ZCallResult(stroke2id, char2stroke, text, padding, truncation,
                          InEffect(cls, ml, max_length))
    /\ char2stroke' = TableAfter(char2stroke, text)
    /\ stroke2id' = VocabAfter(stroke2id, text_to_strokesZ(char2stroke, text))
    /\ UNCHANGED <<cls, max_length, id2stroke, token2id, id2token, zh2text_file>>

ZCall ==
    /\ Ready("zh2text")
    /\ \E text \in Texts, ml \in CallLengths, padding \in {"max_length", "False"},
          truncation \in BOOLEAN : ZCallBody(text, ml, padding, truncation)
    /\ UNCHANGED memo

(* pinyin_tokenizer.py: split_pinyin *)
SplitPinyin ==
    /\ Ready("pinyin")
    /\ \E p \in Syllables :
          /\ call' = Call("split_pinyin", p, None, "False", FALSE)
          /\ out' = Tokens(split_pinyin(token2id, p))
          /\ token2id' = VocabAfter(token2id, <<p>>)
    /\ pc' = "returned"
    /\ UNCHANGED <<cls, max_length, char2stroke, stroke2id, id2stroke, id2token,
                   zh2text_file, memo>>

(* pinyin_tokenizer.py: encode, given what pypinyin.pinyin returned for the text *)
Encode ==
    /\ Ready("pinyin")
    /\ \E syllables \in SyllableLists :
          /\ call' = Call("encode", syllables, None, "False", FALSE)
          /\ out' = Tokens(encode(token2id, syllables))
          /\ token2id' = VocabAfter(token2id, Concat(syllables))
    /\ pc' = "returned"
    /\ UNCHANGED <<cls, max_length, char2stroke, stroke2id, id2stroke, id2token,
                   zh2text_file, memo>>

(* pinyin_tokenizer.py: __call__, given what pypinyin.pinyin returned for the text *)
PinyinCallBody(syllables, ml, padding, truncation) ==
    /\ pc' = "returned"
    /\ call' = Call("__call__", syllables, ml, padding, truncation)
    /\ out' = PinyinCallResult(token2id, syllables, padding, truncation,
                               InEffect(cls, ml, max_length))
    /\ token2id' = VocabAfter(token2id, Concat(syllables))
    /\ UNCHANGED <<cls, max_length, char2stroke, stroke2id, id2stroke, id2token, zh2text_file>>

PinyinCall ==
    /\ Ready("pinyin")
    /\ \E syllables \in SyllableLists, ml \in CallLengths,
          padding \in {"max_length", "False"}, truncation \in BOOLEAN :
              PinyinCallBody(syllables, ml, padding, truncation)
    /\ UNCHANGED memo

(* the caller takes the returned value; the object keeps nothing of the call *)
Release ==
    /\ pc = "returned"
    /\ pc' = "ready"
    /\ call' = NoCall
    /\ out' = NoOut
    /\ UNCHANGED <<cls, max_length, char2stroke, stroke2id, id2stroke,
                   token2id, id2token, zh2text_file, memo>>

Next ==
    \/ \E file \in Files, ml \in CtorLengths : NewStrokeTokenizer(file, ml)
    \/ \E file \in Files, ml \in CtorLengths : NewZh2Text(file, ml)
    \/ \E ml \in CtorLengths : NewPinyinTokenizer(ml)
    \/ TextToStrokes
    \/ StrokeCall
    \/ TextToStrokesZ
    \/ ZCall
    \/ SplitPinyin
    \/ Encode
    \/ PinyinCall
    \/ Release

Spec == Init /\ [][Next]_vars

(* Sequences of calls on one object, over smaller inputs; the first call  *)
(* and its result are remembered in memo.                                  *)
DetTexts == SeqUpTo(TextChars, MaxDetText)

DetLengths == {None, 2}

DetStrokeCall ==
    /\ Ready("stroke_tokenizer")
    /\ \E text \in DetTexts, ml \in DetLengths, padding \in {"True", "False"},
          truncation \in BOOLEAN : StrokeCallBody(<<text>>, ml, padding, truncation)
    /\ memo' = Remember(call', out')

DetZCall ==
    /\ Ready("zh2text")
    /\ \E text \in DetTexts, ml \in DetLengths, padding \in {"max_length", "False"},
          truncation \in BOOLEAN : ZCallBody(text, ml, padding, truncation)
    /\ memo' = Remember(call', out')

DetPinyinCall ==
    /\ Ready("pinyin")
    /\ \E syllables \in SeqUpTo(SyllableEntries, 1), ml \in DetLengths,
          padding \in {"max_length", "False"}, truncation \in BOOLEAN :
              PinyinCallBody(syllables, ml, padding, truncation)
    /\ memo' = Remember(call', out')

NextDet ==
    \/ \E file \in Files, ml \in CtorLengths : NewStrokeTokenizer(file, ml)
    \/ \E file \in Files, ml \in CtorLengths : NewZh2Text(file, ml)
    \/ \E ml \in CtorLengths : NewPinyinTokenizer(ml)
    \/ DetStrokeCall
    \/ DetZCall
    \/ DetPinyinCall
    \/ Release

SpecDet == Init /\ [][NextDet]_vars

---------------------------------------------------------------------------
(* Vocabulary of the properties below *)

Returned(op) == pc = "returned" /\ call.op = op

Graphemic == cls \in {"stroke_tokenizer", "zh2text"}

Mapped(ch) == <<ch>> \in DOMAIN char2stroke

(* the symbols a text should decompose into: a mapped character gives its *)
(* stroke symbols in order, an unmapped one gives one UNK                  *)
ExpectedSymbols(text) ==
    Concat([i \in 1..Len(text) |->
        IF Mapped(text[i])
        THEN [j \in 1..Len(char2stroke[<<text[i]>>]) |-> <<char2stroke[<<text[i]>>][j]>>]
        ELSE <<unk_token>>])

ExpectedLen(text) ==
    Sum([i \in 1..Len(text) |->
        IF Mapped(text[i]) THEN Len(char2stroke[<<text[i]>>]) ELSE 1])

ExpectedRow(text) ==
    <<stroke2id[cls_token]>>
    \o [i \in 1..Len(ExpectedSymbols(text)) |-> stroke2id[ExpectedSymbols(text)[i]]]
    \o <<stroke2id[sep_token]>>

(* the texts of a graphemic __call__, one per row of its result *)
RowTexts == IF cls = "stroke_tokenizer" THEN call.arg ELSE <<call.arg>>

(* a graphemic __call__ that neither truncates nor pads *)
PlainCall ==
    /\ Returned("__call__") /\ Graphemic
    /\ ~call.truncation /\ call.padding = "False" /\ ~out.raised

DecompositionHolds ==
    /\ Returned("text_to_strokes") =>
          /\ out.tokens = ExpectedSymbols(call.arg)
          /\ Len(out.tokens) = ExpectedLen(call.arg)
    /\ PlainCall =>
          \A r \in 1..Len(RowTexts) : out.input_ids[r] = ExpectedRow(RowTexts[r])

(* C1: graphemic decomposition, in both StrokeTokenizer classes: a mapped  *)
(* character contributes one id per symbol of its stroke string, in order, *)
(* an unmapped character exactly one UNK id; the decomposed length is the  *)
(* sum of (stroke-string length if mapped, else 1).                        *)
C1_GraphemicDecomposition == Graphemic => DecompositionHolds

(* the same statement, of stroke_tokenizer.py alone *)
C1_StrokeTokenizerAlone == cls = "stroke_tokenizer" => DecompositionHolds

InitialSet == {initials[i] : i \in 1..Len(initials)}

(* the tone and the core of a syllable as the tone-extraction rule states them *)
HasToneDigit(p) == p # <<>> /\ p[Len(p)] \in Digits

StatedTone(p) == IF HasToneDigit(p) THEN <<p[Len(p)]>> ELSE <<"5">>

StatedCore(p) == IF HasToneDigit(p) THEN SubSeq(p, 1, Len(p) - 1) ELSE p

InitialLens(core) == {i \in 1..Len(core) : SubSeq(core, 1, i) \in InitialSet}

Longest(lens) == CHOOSE i \in lens : \A j \in lens : j <= i

LongestInitialHolds(p) ==
    LET core == StatedCore(p)
        lens == InitialLens(core)
    IN lens # {} =>
          /\ out.tokens[1] = SubSeq(core, 1, Longest(lens))
          /\ out.tokens[2] = SubSeq(core, Longest(lens) + 1, Len(core))

(* C2: split_pinyin, for a syllable whose tone-stripped core has a prefix   *)
(* in the initials set: the initial is the longest such prefix, the final  *)
(* is the rest of the core.                                                *)
C2_LongestInitial == Returned("split_pinyin") => LongestInitialHolds(call.arg)

(* the same statement, of the syllables that do not end in the digit 5 *)
C2_ExceptTrailingFive ==
    (Returned("split_pinyin") /\ ~(call.arg # <<>> /\ call.arg[Len(call.arg)] = "5"))
        => LongestInitialHolds(call.arg)

Retained(entry) == entry # <<>> /\ \E i \in 1..Len(entry[1]) : entry[1][i] \notin Whitespace

RetainedCount(syllables) == Cardinality({i \in 1..Len(syllables) : Retained(syllables[i])})

(* C3: a syllable whose tone-stripped core has no prefix in the initials   *)
(* set splits to (UNK, UNK, tone) and encodes to the ids UNK, UNK, tone;   *)
(* the initial is never a final, a tone digit or a special token.          *)
C3_Degradation ==
    /\ Returned("split_pinyin") =>
          /\ InitialLens(StatedCore(call.arg)) = {} =>
                out.tokens = <<unk_token, unk_token, StatedTone(call.arg)>>
          /\ out.tokens[1] \in InitialSet \cup {unk_token}
    /\ (Returned("encode") /\ Len(call.arg) = 1 /\ Retained(call.arg[1])
           /\ InitialLens(StatedCore(call.arg[1][1])) = {}) =>
          out.tokens = <<token2id[unk_token], token2id[unk_token],
                         Get(token2id, StatedTone(call.arg[1][1]), token2id[unk_token])>>

(* C4: for a non-empty syllable, a trailing digit (5 included) is the tone *)
(* and the core that is split is the syllable without it; otherwise the    *)
(* tone is "5" and the core is the whole syllable.                         *)
C4_ToneExtraction ==
    (Returned("split_pinyin") /\ call.arg # <<>>) =>
        /\ out.tokens[3] = StatedTone(call.arg)
        /\ CoreOf(call.arg) = StatedCore(call.arg)
        /\ out.tokens[1] # unk_token =>
              out.tokens[1] \o out.tokens[2] = StatedCore(call.arg)

(* C5: encode returns 3 ids per retained entry and none for an empty or    *)
(* whitespace-only entry, or the single UNK id when nothing is retained;   *)
(* the wrapped sequence has 2 + 3k ids, or 3 when k = 0, never 2.          *)
C5_EncodeLength ==
    /\ Returned("encode") =>
          LET k == RetainedCount(call.arg)
          IN /\ k > 0 => Len(out.tokens) = 3 * k
             /\ k = 0 => out.tokens = <<token2id[unk_token]>>
    /\ (Returned("__call__") /\ cls = "pinyin" /\ ~call.truncation
           /\ call.padding = "False") =>
          LET k == RetainedCount(call.arg)
              n == Len(out.input_ids[1])
          IN /\ n = (IF k = 0 THEN 3 ELSE 2 + 3 * k)
             /\ n # 2
             /\ out.input_ids[1][1] = token2id[cls_token]
             /\ out.input_ids[1][n] = token2id[sep_token]

C5_Witness ==
    /\ Returned("encode")
    /\ Len(call.arg) = 2
    /\ RetainedCount(call.arg) = 1
    /\ Len(out.tokens) = 3

(* the max_length in effect in the call that returned *)
EffLen == InEffect(cls, call.max_length, max_length)

(* CLS + decomposed ids + SEP of a text, as the class decomposes it *)
WrappedRow(text) ==
    Wrap(stroke2id,
         ToIds(stroke2id, IF cls = "stroke_tokenizer"
                          THEN text_to_strokes(char2stroke, text)
                          ELSE text_to_strokesZ(char2stroke, text)))

(* C6: graphemic attention mask with truncation enabled: each row's mask   *)
(* has min(len(CLS + ids + SEP), max_length) ones, on the leading          *)
(* positions, which hold the wrapped ids; the zeros are the PAD positions. *)
C6_AttentionMask ==
    (Returned("__call__") /\ Graphemic /\ call.truncation /\ ~out.raised) =>
        /\ Len(out.input_ids) = Len(RowTexts)
        /\ Len(out.attention_mask) = Len(RowTexts)
        /\ \A r \in 1..Len(RowTexts) :
              LET ids == out.input_ids[r]
                  mask == out.attention_mask[r]
                  wrapped == WrappedRow(RowTexts[r])
                  n == Min(Len(wrapped), EffLen)
              IN /\ Len(mask) = Len(ids)
                 /\ Len(ids) >= n
                 /\ Sum(mask) = n
                 /\ \A j \in 1..Len(ids) :
                       /\ mask[j] = (IF j <= n THEN 1 ELSE 0)
                       /\ j <= n => ids[j] = wrapped[j]
                       /\ j > n => ids[j] = stroke2id[pad_token]

C6_Witness ==
    /\ Returned("__call__") /\ cls = "stroke_tokenizer" /\ call.truncation
    /\ ~out.raised
    /\ Len(out.input_ids) = 2
    /\ Len(WrappedRow(call.arg[1])) > EffLen
    /\ Sum(out.attention_mask[1]) = EffLen
    /\ Sum(out.attention_mask[2]) < Len(out.attention_mask[2])

(* C7 as stated: every result, with truncation on or off, has at most      *)
(* max_length ids per sequence and a mask of the same length.              *)
C7_BoundAnyOptions ==
    (Returned("__call__") /\ ~out.raised) =>
        \A r \in 1..Len(out.input_ids) :
            /\ Len(out.input_ids[r]) <= EffLen
            /\ Len(out.attention_mask[r]) = Len(out.input_ids[r])

(* C7 amended: the mask always has the length of the id sequence, and with *)
(* truncation enabled the id sequence has at most max_length ids.          *)
C7_BoundWithTruncation ==
    (Returned("__call__") /\ ~out.raised) =>
        /\ Len(out.attention_mask) = Len(out.input_ids)
        /\ \A r \in 1..Len(out.input_ids) :
              /\ Len(out.attention_mask[r]) = Len(out.input_ids[r])
              /\ call.truncation => Len(out.input_ids[r]) <= EffLen

C7_Witness ==
    /\ Returned("__call__") /\ cls = "pinyin" /\ call.truncation
    /\ RetainedCount(call.arg) = 2
    /\ Len(out.input_ids[1]) = EffLen
    /\ Len(out.attention_mask[1]) = EffLen

SpecialSet == {pad_token, unk_token, cls_token, sep_token}

VocabShape(sym2id, id2sym) ==
    /\ {sym2id[s] : s \in DOMAIN sym2id} = 0..(Cardinality(DOMAIN sym2id) - 1)
    /\ \A s, t \in DOMAIN sym2id : sym2id[s] = sym2id[t] => s = t
    /\ sym2id[pad_token] = 0 /\ sym2id[unk_token] = 1
    /\ sym2id[cls_token] = 2 /\ sym2id[sep_token] = 3
    /\ \A s \in (DOMAIN sym2id) \ SpecialSet : sym2id[s] >= 4
    /\ \A s \in DOMAIN sym2id : sym2id[s] \in DOMAIN id2sym /\ id2sym[sym2id[s]] = s

(* C8: the vocabulary built from any table (graphemic) and from the fixed  *)
(* alphabet (phonetic) is a bijection onto 0..size-1, with PAD, UNK, CLS,  *)
(* SEP at 0, 1, 2, 3, every other symbol at 4 or more, and                 *)
(* reverse(lookup(s)) = s for every symbol.                                *)
C8_VocabularyShape ==
    /\ (pc \in {"ready", "returned"} /\ Graphemic) =>
          /\ VocabShape(stroke2id, id2stroke)
          /\ \A c \in StrokeSet(char2stroke) : <<c>> \in DOMAIN stroke2id
    /\ (pc \in {"ready", "returned"} /\ cls = "pinyin") =>
          /\ VocabShape(token2id, id2token)
          /\ \A i \in 1..Len(PinyinVocab) : PinyinVocab[i] \in DOMAIN token2id
          /\ Cardinality(DOMAIN token2id) = Len(PinyinVocab)

C8_Witness ==
    /\ pc = "ready" /\ cls = "stroke_tokenizer"
    /\ Cardinality(DOMAIN stroke2id) = 7
    /\ stroke2id[<<"H">>] = 4 /\ stroke2id[<<"N">>] = 5 /\ stroke2id[<<"S">>] = 6

MissingTableHolds ==
    /\ pc # "raised"
    /\ char2stroke = <<>>
    /\ DOMAIN stroke2id = SpecialSet
    /\ PlainCall =>
          \A r \in 1..Len(RowTexts) :
              out.input_ids[r] = <<stroke2id[cls_token]>>
                                 \o [i \in 1..Len(RowTexts[r]) |-> stroke2id[unk_token]]
                                 \o <<stroke2id[sep_token]>>

(* C9: a graphemic tokenizer constructed with a table path that does not   *)
(* exist never raises; its table is empty, its vocabulary the four special *)
(* symbols, and every encode gives CLS, one UNK per character, SEP.        *)
C9_MissingTable == (Graphemic /\ ~zh2text_file.exists) => MissingTableHolds

(* the same statement, of stroke_tokenizer.py alone *)
C9_StrokeTokenizerAlone ==
    (cls = "stroke_tokenizer" /\ ~zh2text_file.exists) => MissingTableHolds

(* C10: no call changes the vocabulary, the table or max_length, and a     *)
(* call with the text and options of the first call returns what the first *)
(* call returned, whatever calls ran in between.                           *)
C10_Determinism ==
    [][/\ pc # "new" =>
             /\ char2stroke' = char2stroke
             /\ stroke2id' = stroke2id /\ id2stroke' = id2stroke
             /\ token2id' = token2id /\ id2token' = id2token
             /\ max_length' = max_length
       /\ (pc' = "returned" /\ call' = memo'.call) => out' = memo'.out]_vars

C10_Witness ==
    /\ pc = "returned"
    /\ memo.between /\ memo.repeated
    /\ call = memo.call /\ out = memo.out
    /\ \E r \in 1..Len(out.input_ids) : \E j \in 1..Len(out.input_ids[r]) :
          out.input_ids[r][j] = 1

====
